---- MODULE Spec2Model ----
(***************************************************************************)
(* Model of render.py: the test-time pose refinement loop                  *)
(* (render_set_optimize), its FPS benchmark, and the surface-mode          *)
(* dispatch and mesh export of render_sets.                                *)
(*                                                                         *)
(* Tensors are abstracted to small integers: a pose is a pair of integer   *)
(* coordinates (rotation sub-vector q, translation sub-vector T), an image *)
(* is one pixel intensity.  The external renderer is a pure function of    *)
(* (view, scene, pose); its value at a pose is drawn the first time the    *)
(* pose is rendered and remembered afterwards (render_memo).               *)
(***************************************************************************)
EXTENDS Integers, Sequences, FiniteSets, TLC

VARIABLES
    pc,                 \* position in the running function
    err,                \* exception that ended the run, or "none"
    args,               \* the global argparse namespace
    n_views,            \* len(views)
    gaussians,          \* scene parameters: name -> [data, requires_grad]
    render_memo,        \* renderer's values for the current view: pose -> pixel
    idx,                \* number of views taken from the iterator so far
    view,               \* loop variable `view` ("unbound" before the first)
    camera_tensor_q,
    camera_tensor_T,
    pose_optimizer,     \* [params, steps]
    scheduler,          \* [last_epoch, T_max]
    candidate_q,
    candidate_T,
    current_min_loss,
    initial_loss,
    iteration,          \* number of completed passes of the inner loop
    n_render,           \* render calls made by the inner loop of this view
    optimal_pose,
    renders_written,    \* files saved under render_path, in order
    gts_written,        \* files saved under gts_path, in order
    total_fps,          \* what the benchmark appended to total_fps.json
    timing,             \* durations perf_counter measured in the benchmark
    pose_file_exists,   \* pose/ours_<iter>/pose_optimized.npy is on disk
    optimized_pose,     \* render_sets local: "unbound" or "loaded"
    calls,              \* render_sets: calls to collaborators, in order
    mesh_args,          \* numeric mesh flags of args and the extractor's radius
    mesh,               \* render_sets locals name, depth_trunc, voxel_size, sdf_trunc
    mesh_files          \* mesh files written, in order

vars == <<pc, err, args, n_views, gaussians, render_memo, idx, view,
          camera_tensor_q, camera_tensor_T, pose_optimizer, scheduler,
          candidate_q, candidate_T, current_min_loss, initial_loss, iteration,
          n_render, optimal_pose, renders_written, gts_written, total_fps,
          timing, pose_file_exists, optimized_pose, calls, mesh_args, mesh,
          mesh_files>>

optVars == <<n_views, gaussians, render_memo, idx, view,
             camera_tensor_q, camera_tensor_T, pose_optimizer, scheduler,
             candidate_q, candidate_T, current_min_loss, initial_loss, iteration,
             n_render, optimal_pose, renders_written, gts_written, total_fps,
             timing>>

setsVars == <<pose_file_exists, optimized_pose, calls, mesh_args, mesh, mesh_files>>

-----------------------------------------------------------------------------
(* Bounds *)

MaxViews == 2
MaxIter == 2
MaxCoord == 1

\* translation coordinates; a rotation is one of two orientations
Coords == 0..MaxCoord
Rotations == {0, 1}
\* pixel intensities: 0 is black (masked out by rendering > 0), 1 and 2 are lit
Pixels == {0, 1, 2}
Poses == [q : Rotations, T : Coords]

\* a Python name that has not been assigned yet
UnboundPose == [q |-> -1, T |-> -1]
UnboundView == [q |-> -1, T |-> -1, gt |-> -1, image_name |-> -1]

-----------------------------------------------------------------------------
(* Scene representation *)

SceneParams == {"_xyz", "_features_dc", "_features_rest", "_opacity", "_scaling", "_rotation"}

LoadedScene == [p \in SceneParams |-> [data |-> 0, requires_grad |-> TRUE]]

\* a freeze that forgets one of the six parameters
FreezeAllButRotation(g) ==
    [p \in SceneParams |->
        IF p = "_rotation" THEN g[p] ELSE [g[p] EXCEPT !.requires_grad = FALSE]]

FreezeScene(g) == [p \in SceneParams |-> [g[p] EXCEPT !.requires_grad = FALSE]]

-----------------------------------------------------------------------------
(* Floats of the mesh parameters, as fractions n / d with d > 0 *)

RECURSIVE Gcd(_, _)
Gcd(a, b) == IF b = 0 THEN a ELSE Gcd(b, a % b)

Frac(n, d) ==
    LET g == Gcd(IF n < 0 THEN -n ELSE n, d)
    IN [n |-> n \div g, d |-> d \div g]

Float(i) == [n |-> i, d |-> 1]

Times(k, x) == Frac(k * x.n, x.d)

Over(x, m) == Frac(x.n, x.d * m)

\* a local that has not been assigned
UnboundFloat == [n |-> 0, d |-> 0]

NoMeshArgs == [depth_trunc |-> 0, voxel_size |-> 0, sdf_trunc |-> 0, mesh_res |-> 0,
               radius |-> 0]

NoMesh == [name |-> <<>>, depth_trunc |-> UnboundFloat, voxel_size |-> UnboundFloat,
           sdf_trunc |-> UnboundFloat]

-----------------------------------------------------------------------------
(* Loss *)

\* float values: finite numbers, nan, the constant 1e20, and Python's None
Num(x) == [k |-> "num", v |-> x]
NaN == [k |-> "nan", v |-> 0]
Float1e20 == [k |-> "1e20", v |-> 0]
None == [k |-> "None", v |-> 0]

black_hole_threshold == 0

Mask(rendering) == IF rendering > black_hole_threshold THEN 1 ELSE 0

Abs(x) == IF x < 0 THEN -x ELSE x

\* masked L1: sum(|rendering - gt| * mask) / sum(mask), non-finite on an empty mask
l1_loss_mask(rendering, gt, mask) ==
    IF mask = 0 THEN NaN ELSE Num(Abs((rendering - gt) * mask))

\* Python's `a < b` on floats: false whenever either side is nan; 1e20 is
\* above every loss a pair of images produces
LossLess(a, b) ==
    /\ a.k = "num"
    /\ \/ b.k = "1e20"
       \/ b.k = "num" /\ a.v < b.v

-----------------------------------------------------------------------------
(* Renderer *)

\* no pose of the current view has been rendered yet
EmptyMemo == <<>>

\* the images render(view, gaussians, ..., camera_pose=pose) can return
RenderOutcomes(memo, pose) ==
    IF pose \in DOMAIN memo THEN {memo[pose]} ELSE Pixels

Remember(memo, pose, px) ==
    [p \in DOMAIN memo \cup {pose} |-> IF p = pose THEN px ELSE memo[p]]

-----------------------------------------------------------------------------
(* render_set_optimize *)

ViewsOfDataset == [q : Rotations, T : Coords, gt : Pixels]

PoseParams == {"camera_tensor_T", "camera_tensor_q"}

NewAdam == [params |-> PoseParams, steps |-> 0]

NewCosineAnnealingLR(num_iter) == [T_max |-> num_iter, last_epoch |-> 0]

\* a comparison that also replaces the candidate on a tie
ReplaceOnTie(l, min_loss) ==
    /\ l.k = "num"
    /\ \/ min_loss.k = "1e20"
       \/ min_loss.k = "num" /\ l.v <= min_loss.v

\* line 178: loss < current_min_loss
ShouldReplace(l, min_loss) == LossLess(l, min_loss)

\* a best loss carried over from the previous view
StaleMinLoss == current_min_loss

\* line 155
StartMinLoss == Float1e20

\* a loop that makes one pass too many
ContinueInclusive(done, num_iter) == done <= num_iter

\* line 159: range(num_iter) has another value after `done` passes
ContinueLoop(done, num_iter) == done < num_iter

\* displacement one Adam step can give a coordinate
Deltas == {-1, 0, 1}

\* pose_optimizer.step(): moves every tensor of its parameter groups that has a gradient
AdamStep(opt, name, value, delta) ==
    IF name \in opt.params THEN value + delta ELSE value

SceneStep(opt, g) ==
    [p \in SceneParams |->
        IF p \in opt.params /\ g[p].requires_grad
        THEN [g[p] EXCEPT !.data = 1 - g[p].data]
        ELSE g[p]]

Enter ==
    /\ pc = "start"
    /\ gaussians' = FreezeScene(gaussians)
    /\ pc' = "views"
    /\ UNCHANGED <<err, args, n_views, render_memo, idx, view, camera_tensor_q,
                   camera_tensor_T, pose_optimizer, scheduler, candidate_q,
                   candidate_T, current_min_loss, initial_loss, iteration,
                   n_render, optimal_pose, renders_written, gts_written,
                   total_fps, timing>>
    /\ UNCHANGED setsVars

BeginView ==
    /\ pc = "views"
    /\ idx < n_views
    /\ \E v \in ViewsOfDataset :
        /\ view' = [q |-> v.q, T |-> v.T, gt |-> v.gt, image_name |-> idx]
        /\ camera_tensor_q' = v.q
        /\ camera_tensor_T' = v.T
        /\ candidate_q' = v.q
        /\ candidate_T' = v.T
    /\ idx' = idx + 1
    /\ pose_optimizer' = NewAdam
    /\ scheduler' = NewCosineAnnealingLR(args.optim_test_pose_iter)
    /\ current_min_loss' = StartMinLoss
    /\ initial_loss' = None
    /\ iteration' = 0
    /\ n_render' = 0
    /\ render_memo' = EmptyMemo
    /\ pc' = "loop"
    /\ UNCHANGED <<err, args, n_views, gaussians, optimal_pose,
                   renders_written, gts_written, total_fps, timing>>
    /\ UNCHANGED setsVars

Iterate ==
    /\ pc = "loop"
    /\ ContinueLoop(iteration, args.optim_test_pose_iter)
    /\ LET pose == [q |-> camera_tensor_q, T |-> camera_tensor_T] IN
       \E rendering \in RenderOutcomes(render_memo, pose), dq \in Deltas, dT \in Deltas :
        LET l == l1_loss_mask(rendering, view.gt, Mask(rendering))
            new_q == AdamStep(pose_optimizer, "camera_tensor_q", camera_tensor_q, dq)
            new_T == AdamStep(pose_optimizer, "camera_tensor_T", camera_tensor_T, dT)
        IN
        /\ new_q \in Rotations
        /\ new_T \in Coords
        /\ render_memo' = Remember(render_memo, pose, rendering)
        /\ camera_tensor_q' = new_q
        /\ camera_tensor_T' = new_T
        /\ gaussians' = SceneStep(pose_optimizer, gaussians)
        /\ pose_optimizer' = [pose_optimizer EXCEPT !.steps = @ + 1]
        /\ initial_loss' = IF iteration = 0 THEN l ELSE initial_loss
        /\ IF ShouldReplace(l, current_min_loss)
           THEN /\ current_min_loss' = l
                /\ candidate_q' = new_q
                /\ candidate_T' = new_T
           ELSE UNCHANGED <<current_min_loss, candidate_q, candidate_T>>
    /\ scheduler' = [scheduler EXCEPT !.last_epoch = @ + 1]
    /\ iteration' = iteration + 1
    /\ n_render' = n_render + 1
    /\ UNCHANGED <<pc, err, args, n_views, idx, view, optimal_pose,
                   renders_written, gts_written, total_fps, timing>>
    /\ UNCHANGED setsVars

PngFile(image_name) == [stem |-> image_name, ext |-> ".png"]

FinishView ==
    /\ pc = "loop"
    /\ ~ContinueLoop(iteration, args.optim_test_pose_iter)
    /\ camera_tensor_q' = candidate_q
    /\ camera_tensor_T' = candidate_T
    /\ optimal_pose' = [q |-> candidate_q, T |-> candidate_T]
    /\ \E rendering_opt \in RenderOutcomes(render_memo, optimal_pose') :
        render_memo' = Remember(render_memo, optimal_pose', rendering_opt)
    /\ renders_written' = Append(renders_written, PngFile(view.image_name))
    /\ gts_written' = Append(gts_written, PngFile(view.image_name))
    /\ pc' = "views"
    /\ UNCHANGED <<err, args, n_views, gaussians, idx, view, pose_optimizer,
                   scheduler, candidate_q, candidate_T, current_min_loss,
                   initial_loss, iteration, n_render, total_fps, timing>>
    /\ UNCHANGED setsVars

-----------------------------------------------------------------------------
(* FPS benchmark, lines 205-219 *)

Trials == 1000
TrimLow == 100
TrimHigh == 900

\* durations (in clock ticks) of a warm-up render, a steady render, a cached render
SlowTicks == 9
FastTicks == 1
SteadyTicks == <<3, 2>>

\* how many of the trials are slow (the first ones) and fast (the last ones)
OutlierCounts == {0, 50, 100, 150}

TimingProfiles == [slow : OutlierCounts, fast : OutlierCounts]

NoTiming == [slow |-> -1, fast |-> -1]

\* end - start of trial i (1-based) under profile t
Duration(t, i) ==
    IF i <= t.slow THEN SlowTicks
    ELSE IF i > Trials - t.fast THEN FastTicks
    ELSE SteadyTicks[(i % Len(SteadyTicks)) + 1]

Measured(t) == [i \in 1..Trials |-> Duration(t, i)]

\* a benchmark that forgets to sort
Unsorted(list) == list

\* list.sort()
Sorted(list) == SortSeq(list, LAMBDA a, b : a < b)

\* list[lo:hi] of Python
Slice(list, lo, hi) ==
    LET h == IF hi > Len(list) THEN Len(list) ELSE hi
    IN IF lo >= h THEN <<>> ELSE SubSeq(list, lo + 1, h)

\* sum(list[lo..hi]), halving the range so that the evaluation stays shallow
RECURSIVE SumRange(_, _, _)
SumRange(list, lo, hi) ==
    IF lo > hi THEN 0
    ELSE IF lo = hi THEN list[lo]
    ELSE LET mid == (lo + hi) \div 2
         IN SumRange(list, lo, mid) + SumRange(list, mid + 1, hi)

Sum(list) == SumRange(list, 1, Len(list))

\* 1 / (sum(fps_list) / len(fps_list)) as the fraction len / sum
Fps(fps_list) == [num |-> Len(fps_list), den |-> Sum(fps_list)]

\* lines 207-215 for the durations of profile t
FpsOf(t) == Fps(Slice(Sorted(Measured(t)), TrimLow, TrimHigh))

\* the benchmark is a function of the measured durations alone: tabulated once
BenchmarkTable == {<<t, FpsOf(t)>> : t \in TimingProfiles}

BenchmarkResult(t) == (CHOOSE p \in BenchmarkTable : p[1] = t)[2]

Benchmark ==
    /\ pc = "views"
    /\ ~(idx < n_views)
    /\ args.test_fps
    /\ IF view = UnboundView \/ optimal_pose = UnboundPose
       THEN \* line 210 reads `view` and `optimal_pose`, never assigned
            /\ err' = "UnboundLocalError"
            /\ pc' = "error"
            /\ UNCHANGED <<timing, total_fps>>
       ELSE \E t \in TimingProfiles :
            /\ timing' = t
            /\ total_fps' = Append(total_fps, BenchmarkResult(t))
            /\ pc' = "done"
            /\ err' = err
    /\ UNCHANGED <<args, n_views, gaussians, render_memo, idx, view, camera_tensor_q,
                   camera_tensor_T, pose_optimizer, scheduler, candidate_q,
                   candidate_T, current_min_loss, initial_loss, iteration,
                   n_render, optimal_pose, renders_written, gts_written>>
    /\ UNCHANGED setsVars

Return ==
    /\ pc = "views"
    /\ ~(idx < n_views)
    /\ ~args.test_fps
    /\ pc' = "done"
    /\ UNCHANGED <<err, args>>
    /\ UNCHANGED optVars
    /\ UNCHANGED setsVars

-----------------------------------------------------------------------------

Flags == [optim_test_pose_iter : 0..MaxIter, test_fps : BOOLEAN]

InitOptimize ==
    /\ pc = "start"
    /\ err = "none"
    /\ args \in Flags
    /\ n_views \in 0..MaxViews
    /\ gaussians = LoadedScene
    /\ render_memo = EmptyMemo
    /\ idx = 0
    /\ view = UnboundView
    /\ camera_tensor_q = -1
    /\ camera_tensor_T = -1
    /\ pose_optimizer = NewAdam
    /\ scheduler = NewCosineAnnealingLR(0)
    /\ candidate_q = -1
    /\ candidate_T = -1
    /\ current_min_loss = None
    /\ initial_loss = None
    /\ iteration = 0
    /\ n_render = 0
    /\ optimal_pose = UnboundPose
    /\ renders_written = <<>>
    /\ gts_written = <<>>
    /\ total_fps = <<>>
    /\ timing = NoTiming
    /\ pose_file_exists = TRUE
    /\ optimized_pose = "unbound"
    /\ calls = <<>>
    /\ mesh_args = NoMeshArgs
    /\ mesh = NoMesh
    /\ mesh_files = <<>>

NextOptimize ==
    \/ Enter
    \/ BeginView
    \/ Iterate
    \/ FinishView
    \/ Benchmark
    \/ Return

SpecOptimize == InitOptimize /\ [][NextOptimize]_vars

-----------------------------------------------------------------------------
(* Properties of render_set_optimize *)

LivePose == [q |-> camera_tensor_q, T |-> camera_tensor_T]
CandidatePose == [q |-> candidate_q, T |-> candidate_T]
StoredPose == [q |-> view.q, T |-> view.T]

\* loss of a render of the current view taken at pose p (p has been rendered)
LossAt(memo, p) == l1_loss_mask(memo[p], view.gt, Mask(memo[p]))

ViewFinished == pc = "views" /\ view # UnboundView

\* C1: within one view the best candidate (candidate_q, candidate_T,
\* current_min_loss) is replaced exactly in the passes whose loss is strictly
\* below current_min_loss; a pass with an equal, higher or non-finite loss
\* leaves it unchanged, so current_min_loss never increases.
C1_CandidateReplacedOnlyOnStrictImprovement ==
    [][(pc = "loop" /\ pc' = "loop" /\ iteration' = iteration + 1) =>
        LET l == LossAt(render_memo', LivePose) IN
        /\ LossLess(l, current_min_loss) =>
             /\ current_min_loss' = l
             /\ candidate_q' = camera_tensor_q'
             /\ candidate_T' = camera_tensor_T'
        /\ ~LossLess(l, current_min_loss) =>
             UNCHANGED <<candidate_q, candidate_T, current_min_loss>>
        /\ \/ current_min_loss' = current_min_loss
           \/ LossLess(current_min_loss', current_min_loss)]_vars

\* two passes done, the second tied with the first, and the candidate of the
\* first pass was kept while the live pose moved on
C1_Witness ==
    /\ pc = "loop"
    /\ iteration = 2
    /\ current_min_loss.k = "num"
    /\ initial_loss = current_min_loss
    /\ CandidatePose \in DOMAIN render_memo
    /\ LossAt(render_memo, CandidatePose) = current_min_loss
    /\ LivePose # CandidatePose

\* C2 (as claimed): the loss recorded for the output pose is the loss of a
\* render taken at that pose, i.e. the output pose is the pose at which the
\* lowest loss of the view was measured.
C2_OutputPoseHasTheRecordedLoss ==
    (ViewFinished /\ current_min_loss.k = "num") =>
        LossAt(render_memo, optimal_pose) = current_min_loss

\* C3: the inner loop of a view makes exactly num_iter passes, each with one
\* render and one optimizer step (and one scheduler step), whatever the losses;
\* with num_iter = 0 the output pose is the view's stored pose.
C3_ExactlyNumIterPasses ==
    /\ pc = "loop" =>
         /\ iteration <= args.optim_test_pose_iter
         /\ n_render = iteration
         /\ pose_optimizer.steps = iteration
         /\ scheduler.last_epoch = iteration
    /\ ViewFinished =>
         /\ iteration = args.optim_test_pose_iter
         /\ n_render = args.optim_test_pose_iter
         /\ pose_optimizer.steps = args.optim_test_pose_iter
         /\ args.optim_test_pose_iter = 0 => optimal_pose = StoredPose

\* a view finished after two passes although its first loss was already zero
C3_Witness ==
    /\ ViewFinished
    /\ args.optim_test_pose_iter = 2
    /\ iteration = 2
    /\ initial_loss = Num(0)

\* a view finished with a zero budget
C3_WitnessZero ==
    /\ ViewFinished
    /\ args.optim_test_pose_iter = 0

\* C4: the scene parameters keep their loaded values throughout the run, they
\* are all non-trainable once the function has passed its preamble, and the
\* optimizer holds the two pose sub-vectors only.
C4_SceneNeverChanges ==
    /\ \A p \in SceneParams : gaussians[p].data = LoadedScene[p].data
    /\ pc # "start" => \A p \in SceneParams : ~gaussians[p].requires_grad
    /\ pose_optimizer.params = {"camera_tensor_q", "camera_tensor_T"}

\* a run with two views, optimizer steps and the benchmark has completed
C4_Witness ==
    /\ pc = "done"
    /\ idx = 2
    /\ pose_optimizer.steps > 0
    /\ total_fps # <<>>

\* C5 (as claimed): with zero views the function completes without an error
\* and writes no render, whatever the flags.
C5_ZeroViewsIsANoOp ==
    n_views = 0 => (pc # "error" /\ renders_written = <<>>)

\* C7: the benchmark returns len / sum of the durations left after the 100
\* lowest and the 100 highest of the 1000 sorted durations are discarded:
\* 800 durations remain and the result is strictly positive.
KeptCount(t, v) ==
    LET below == Cardinality({i \in 1..Trials : Duration(t, i) < v})
        upto == Cardinality({i \in 1..Trials : Duration(t, i) <= v})
        lo == IF below > TrimLow THEN below ELSE TrimLow
        hi == IF upto < TrimHigh THEN upto ELSE TrimHigh
    IN IF hi > lo THEN hi - lo ELSE 0

TickValues == {SlowTicks, FastTicks} \cup {SteadyTicks[i] : i \in DOMAIN SteadyTicks}

RECURSIVE WeightedSum(_, _)
WeightedSum(t, vs) ==
    IF vs = {} THEN 0
    ELSE LET v == CHOOSE x \in vs : TRUE
         IN v * KeptCount(t, v) + WeightedSum(t, vs \ {v})

MiddleSumTable == {<<t, WeightedSum(t, TickValues)>> : t \in TimingProfiles}

MiddleSum(t) == (CHOOSE p \in MiddleSumTable : p[1] = t)[2]

C7_FpsIsInverseMeanOfMiddle ==
    total_fps # <<>> =>
        LET fps == total_fps[Len(total_fps)] IN
        /\ fps.num = Trials - 2 * TrimLow
        /\ fps.num = 800
        /\ fps.den = MiddleSum(timing)
        /\ fps.num > 0
        /\ fps.den > 0

\* a benchmark whose slow outliers exceed the trim and whose fast ones do not
C7_Witness ==
    /\ pc = "done"
    /\ total_fps # <<>>
    /\ timing.slow = 150
    /\ timing.fast = 50

\* C9: every view starts its refinement from its own stored pose, with the
\* candidate equal to it, current_min_loss = 1e20, initial_loss = None, a new
\* optimizer and a new schedule; a view in which no loss improved on 1e20
\* outputs its own stored pose.
C9_PerViewStateIsFresh ==
    /\ (pc = "loop" /\ iteration = 0) =>
         /\ LivePose = StoredPose
         /\ CandidatePose = StoredPose
         /\ current_min_loss = Float1e20
         /\ initial_loss = None
         /\ pose_optimizer = NewAdam
         /\ scheduler = NewCosineAnnealingLR(args.optim_test_pose_iter)
         /\ render_memo = EmptyMemo
    /\ (ViewFinished /\ current_min_loss = Float1e20) => optimal_pose = StoredPose

\* the second view starts although the first view's output pose and best loss
\* were different from its own
C9_Witness ==
    /\ pc = "loop"
    /\ iteration = 0
    /\ idx = 2
    /\ optimal_pose # UnboundPose
    /\ optimal_pose # StoredPose

-----------------------------------------------------------------------------
(* render_sets *)

MaxFlag == 2
MaxRadius == 2
MaxRes == 2

\* --depth_trunc, --voxel_size, --sdf_trunc: the default -1, another negative
\* value, zero, and positive values
FlagValues == {-2, -1} \cup 0..MaxFlag

MeshArgs == [depth_trunc : FlagValues, voxel_size : FlagValues, sdf_trunc : FlagValues,
             mesh_res : 1..MaxRes, radius : 1..MaxRadius]

SetsFlags == [surf : BOOLEAN, eval : BOOLEAN, skip_train : BOOLEAN, skip_test : BOOLEAN,
              skip_mesh : BOOLEAN, render_path : BOOLEAN, unbounded : BOOLEAN,
              infer_video : BOOLEAN]

\* lines 337-339 with the voxel size derived from the default depth range
TruncationFromDefaults(a) ==
    LET depth_trunc == IF a.depth_trunc < 0 THEN Times(2, Float(a.radius))
                       ELSE Float(a.depth_trunc)
        voxel_size == IF a.voxel_size < 0 THEN Over(Times(2, Float(a.radius)), a.mesh_res)
                      ELSE Float(a.voxel_size)
        sdf_trunc == IF a.sdf_trunc < 0 THEN Times(5, voxel_size) ELSE Float(a.sdf_trunc)
    IN [depth_trunc |-> depth_trunc, voxel_size |-> voxel_size, sdf_trunc |-> sdf_trunc]

\* lines 337-339
Truncation(a) ==
    LET depth_trunc == IF a.depth_trunc < 0 THEN Times(2, Float(a.radius))
                       ELSE Float(a.depth_trunc)
        voxel_size == IF a.voxel_size < 0 THEN Over(depth_trunc, a.mesh_res)
                      ELSE Float(a.voxel_size)
        sdf_trunc == IF a.sdf_trunc < 0 THEN Times(5, voxel_size) ELSE Float(a.sdf_trunc)
    IN [depth_trunc |-> depth_trunc, voxel_size |-> voxel_size, sdf_trunc |-> sdf_trunc]

\* file names are sequences of parts; str.replace(old, new) on the parts
Replace(name, old, new) == [i \in DOMAIN name |-> IF name[i] = old THEN new ELSE name[i]]

Call(c) == calls' = Append(calls, c)
CallAll(cs) == calls' = calls \o cs

Raise(e) ==
    /\ err' = e
    /\ pc' = "error"

\* lines 230-239
RsSetup ==
    /\ pc = "render_sets"
    /\ Call("Scene")
    /\ pc' = IF args.surf THEN "surf" ELSE "render"
    /\ UNCHANGED <<err, args, pose_file_exists, optimized_pose, mesh_args, mesh, mesh_files>>
    /\ UNCHANGED optVars

\* lines 241-269
NonSurfRender ==
    /\ pc = "render"
    /\ IF ~args.skip_train /\ ~args.infer_video /\ ~args.eval
       THEN IF pose_file_exists
            THEN /\ optimized_pose' = "loaded"
                 /\ CallAll(<<"np.load", "loadCameras", "render_set train">>)
                 /\ pc' = "infer_video"
                 /\ err' = err
            ELSE /\ Raise("FileNotFoundError")
                 /\ Call("np.load")
                 /\ UNCHANGED optimized_pose
       ELSE /\ IF ~args.skip_test
               THEN CallAll(<<"render_set_optimize test", "save_time">>)
               ELSE Call("save_time")
            /\ pc' = "infer_video"
            /\ UNCHANGED <<err, optimized_pose>>
    /\ UNCHANGED <<args, pose_file_exists, mesh_args, mesh, mesh_files>>
    /\ UNCHANGED optVars

\* lines 271-297
InferVideo ==
    /\ pc = "infer_video"
    /\ IF args.infer_video /\ ~args.eval
       THEN IF pose_file_exists
            THEN /\ CallAll(<<"save_interpolate_pose", "np.load", "loadCameras",
                             "render_set interp", "images_to_video">>)
                 /\ pc' = "done"
                 /\ err' = err
            ELSE /\ Raise("FileNotFoundError")
                 /\ Call("save_interpolate_pose")
       ELSE /\ pc' = "done"
            /\ UNCHANGED <<err, calls>>
    /\ UNCHANGED <<args, pose_file_exists, optimized_pose, mesh_args, mesh, mesh_files>>
    /\ UNCHANGED optVars

\* lines 299-302
SurfEnter ==
    /\ pc = "surf"
    /\ Call("GaussianExtractor")
    /\ pc' = IF args.eval THEN "surf_eval" ELSE "surf_train"
    /\ UNCHANGED <<err, args, pose_file_exists, optimized_pose, mesh_args, mesh, mesh_files>>
    /\ UNCHANGED optVars

\* lines 303-310
SurfEvalTest ==
    /\ pc = "surf_eval"
    /\ IF ~args.skip_test /\ n_views > 0
       THEN CallAll(<<"reconstruction_optim", "save_time", "export_image test">>)
       ELSE UNCHANGED calls
    /\ pc' = "traj"
    /\ UNCHANGED <<err, args, pose_file_exists, optimized_pose, mesh_args, mesh, mesh_files>>
    /\ UNCHANGED optVars

\* lines 313-320
SurfTrainExport ==
    /\ pc = "surf_train"
    /\ IF ~args.skip_train
       THEN IF pose_file_exists
            THEN /\ optimized_pose' = "loaded"
                 /\ CallAll(<<"np.load", "loadCameras", "reconstruction_optim",
                             "export_image train">>)
                 /\ pc' = "mesh_if"
                 /\ err' = err
            ELSE /\ Raise("FileNotFoundError")
                 /\ Call("np.load")
                 /\ UNCHANGED optimized_pose
       ELSE /\ pc' = "mesh_if"
            /\ UNCHANGED <<err, calls, optimized_pose>>
    /\ UNCHANGED <<args, pose_file_exists, mesh_args, mesh, mesh_files>>
    /\ UNCHANGED optVars

\* lines 322-326
MeshEnter ==
    /\ pc = "mesh_if"
    /\ IF ~args.skip_mesh
       THEN /\ Call("active_sh_degree = 0")
            /\ pc' = "mesh"
       ELSE /\ pc' = "traj"
            /\ UNCHANGED calls
    /\ UNCHANGED <<err, args, pose_file_exists, optimized_pose, mesh_args, mesh, mesh_files>>
    /\ UNCHANGED optVars

\* lines 327-340
MeshFuse ==
    /\ pc = "mesh"
    /\ IF optimized_pose = "unbound"
       THEN \* line 327 reads optimized_pose, assigned only at line 316
            /\ Raise("UnboundLocalError")
            /\ UNCHANGED <<calls, mesh_args, mesh>>
       ELSE /\ err' = err
            /\ pc' = "mesh_write"
            /\ IF args.unbounded
               THEN /\ mesh' = [NoMesh EXCEPT !.name = <<"fuse_unbounded", ".ply">>]
                    /\ \E r \in 1..MaxRes :
                        mesh_args' = [NoMeshArgs EXCEPT !.mesh_res = r]
                    /\ CallAll(<<"loadCameras", "reconstruction_optim",
                                "extract_mesh_unbounded">>)
               ELSE /\ \E a \in MeshArgs :
                        /\ mesh_args' = a
                        /\ mesh' = [name |-> <<"fuse", ".ply">>,
                                    depth_trunc |-> Truncation(a).depth_trunc,
                                    voxel_size |-> Truncation(a).voxel_size,
                                    sdf_trunc |-> Truncation(a).sdf_trunc]
                    /\ CallAll(<<"loadCameras", "reconstruction_optim",
                                "extract_mesh_bounded">>)
    /\ UNCHANGED <<args, pose_file_exists, optimized_pose, mesh_files>>
    /\ UNCHANGED optVars

\* lines 342-343
MeshWrite ==
    /\ pc = "mesh_write"
    /\ mesh_files' = Append(mesh_files, mesh.name)
    /\ Call("write_triangle_mesh")
    /\ pc' = "mesh_post"
    /\ UNCHANGED <<err, args, pose_file_exists, optimized_pose, mesh_args, mesh>>
    /\ UNCHANGED optVars

\* lines 345-347
MeshPost ==
    /\ pc = "mesh_post"
    /\ mesh_files' = Append(mesh_files, Replace(mesh.name, ".ply", "_post.ply"))
    /\ CallAll(<<"post_process_mesh", "write_triangle_mesh">>)
    /\ pc' = "traj"
    /\ UNCHANGED <<err, args, pose_file_exists, optimized_pose, mesh_args, mesh>>
    /\ UNCHANGED optVars

\* lines 350-354
TrajEnter ==
    /\ pc = "traj"
    /\ pc' = IF args.render_path THEN "traj_render" ELSE "done"
    /\ UNCHANGED <<err, args, pose_file_exists, optimized_pose, calls, mesh_args, mesh,
                   mesh_files>>
    /\ UNCHANGED optVars

\* lines 355-362
TrajRender ==
    /\ pc = "traj_render"
    /\ IF optimized_pose = "unbound"
       THEN \* line 355 reads optimized_pose, assigned only at line 316
            /\ Raise("UnboundLocalError")
            /\ UNCHANGED calls
       ELSE /\ CallAll(<<"loadCameras", "generate_path", "reconstruction",
                        "export_image traj", "create_videos">>)
            /\ pc' = "done"
            /\ err' = err
    /\ UNCHANGED <<args, pose_file_exists, optimized_pose, mesh_args, mesh, mesh_files>>
    /\ UNCHANGED optVars

InitSets ==
    /\ pc = "render_sets"
    /\ err = "none"
    /\ args \in SetsFlags
    /\ n_views \in 0..1
    /\ pose_file_exists \in BOOLEAN
    /\ gaussians = LoadedScene
    /\ render_memo = EmptyMemo
    /\ idx = 0
    /\ view = UnboundView
    /\ camera_tensor_q = -1
    /\ camera_tensor_T = -1
    /\ pose_optimizer = NewAdam
    /\ scheduler = NewCosineAnnealingLR(0)
    /\ candidate_q = -1
    /\ candidate_T = -1
    /\ current_min_loss = None
    /\ initial_loss = None
    /\ iteration = 0
    /\ n_render = 0
    /\ optimal_pose = UnboundPose
    /\ renders_written = <<>>
    /\ gts_written = <<>>
    /\ total_fps = <<>>
    /\ timing = NoTiming
    /\ optimized_pose = "unbound"
    /\ calls = <<>>
    /\ mesh_args = NoMeshArgs
    /\ mesh = NoMesh
    /\ mesh_files = <<>>

NextSets ==
    \/ RsSetup
    \/ NonSurfRender
    \/ InferVideo
    \/ SurfEnter
    \/ SurfEvalTest
    \/ SurfTrainExport
    \/ MeshEnter
    \/ MeshFuse
    \/ MeshWrite
    \/ MeshPost
    \/ TrajEnter
    \/ TrajRender

SpecSets == InitSets /\ [][NextSets]_vars

-----------------------------------------------------------------------------
(* Properties of render_sets *)

Equal(x, y) == x.n * y.d = y.n * x.d

MeshExported == pc \in {"mesh_write", "mesh_post", "traj", "traj_render", "done", "error"}

\* C6: in bounded mode depth_trunc is 2 * radius when its flag is unset
\* (negative) and the flag otherwise; voxel_size is that depth_trunc / mesh_res
\* when unset and the flag otherwise; sdf_trunc is 5 * that voxel_size when
\* unset and the flag otherwise.
C6_TruncationChain ==
    (MeshExported /\ mesh.name = <<"fuse", ".ply">>) =>
        /\ IF mesh_args.depth_trunc < 0
           THEN Equal(mesh.depth_trunc, Float(2 * mesh_args.radius))
           ELSE Equal(mesh.depth_trunc, Float(mesh_args.depth_trunc))
        /\ IF mesh_args.voxel_size < 0
           THEN Equal(Times(mesh_args.mesh_res, mesh.voxel_size), mesh.depth_trunc)
           ELSE Equal(mesh.voxel_size, Float(mesh_args.voxel_size))
        /\ IF mesh_args.sdf_trunc < 0
           THEN Equal(mesh.sdf_trunc, Times(5, mesh.voxel_size))
           ELSE Equal(mesh.sdf_trunc, Float(mesh_args.sdf_trunc))
        /\ mesh.depth_trunc.d > 0 /\ mesh.voxel_size.d > 0 /\ mesh.sdf_trunc.d > 0

\* only depth_trunc overridden: voxel_size and sdf_trunc follow the override
C6_Witness ==
    /\ pc = "done"
    /\ mesh.name = <<"fuse", ".ply">>
    /\ mesh_args.depth_trunc = 1
    /\ mesh_args.voxel_size < 0
    /\ mesh_args.sdf_trunc < 0
    /\ mesh_args.radius = 2
    /\ mesh_args.mesh_res = 2
    /\ mesh.voxel_size = [n |-> 1, d |-> 2]
    /\ mesh.sdf_trunc = [n |-> 5, d |-> 2]

\* C8 (as claimed): every mesh export (surf, no eval, no skip_mesh) writes
\* two files, the raw mesh first and the post-processed one second under the
\* same name with _post.ply, the raw one before post-processing runs;
\* fuse_unbounded.ply in unbounded mode and fuse.ply in bounded mode.
C8_MeshExportWritesTwoFiles ==
    /\ (pc \in {"done", "error"} /\ args.surf /\ ~args.eval /\ ~args.skip_mesh
            /\ pose_file_exists) =>
         LET name == IF args.unbounded THEN <<"fuse_unbounded", ".ply">>
                     ELSE <<"fuse", ".ply">>
         IN mesh_files = <<name, <<name[1], "_post.ply">> >>
    /\ pc = "mesh_post" => mesh_files = <<mesh.name>>

\* C10 (as claimed): in surface mode, when the mesh export or the trajectory
\* rendering runs, optimized_pose has been loaded earlier in the invocation.
C10_PoseLoadedBeforeUse ==
    pc \in {"mesh", "traj_render"} => optimized_pose = "loaded"

====
